---- MODULE Spec2Model ----
(***************************************************************************)
(* The job analysis queue of the crossNoso backend: upload_file puts job   *)
(* directories on an asyncio.Queue, ANALYSIS_WORKER_COUNT analysis_worker  *)
(* coroutines take them off and run run_pipeline for each on a             *)
(* ThreadPoolExecutor, and check_status reads the marker files.            *)
(*   routers/api_anitform.py      upload_file, analysis_worker,            *)
(*                                start_analysis_workers, check_status     *)
(*   pipeline/anti_pipeline.py    run_pipeline                             *)
(***************************************************************************)
EXTENDS Integers, Sequences, FiniteSets, TLC

\* ------------------------------------------------------------------ bounds

\* Number of submissions in the general specification Spec, whose jobs meet
\* every behaviour of the tools and of the disk.
MaxJobs == 1

\* The pool specifications submit this many jobs more than there are workers,
\* so that a job has to wait for a free worker.
PoolExtra == 1

\* Number of requests in the specification of upload_file, SpecSubmit.
MaxUploads == 1

\* Number of job_ids generated in SpecIds, where the process restarts and
\* the random keys repeat.
MaxIds == 3

\* Number of job_ids generated on end in SpecSerial.
MaxSerial == 100

\* Number of lines after the header in a hits_summary.tsv of SpecRows.
MaxRows == 3

\* ------------------------------------------------------- program constants

\* api_anitform.py:303, also the executor's max_workers (line 328).
ANALYSIS_WORKER_COUNT == 5

PoolJobs == ANALYSIS_WORKER_COUNT + PoolExtra

Workers == 1 .. ANALYSIS_WORKER_COUNT

\* Job directories are named by the order of their submission.
JobIds == 1 .. (IF PoolJobs > MaxJobs THEN PoolJobs ELSE MaxJobs)

\* The requests of SpecSubmit, by the order in which upload_file made their
\* directories; request j works in job directory j.
UploadIds == 1 .. MaxUploads

VARIABLES
    submitted,  \* number of accepted submissions; job ids 1..submitted exist
    stub,       \* per job: how the external tools and the disk behave for it
    dir,        \* per job: files of the job directory, in order of creation
    errlog,     \* per job: the entries of error.log, in order
    failedAt,   \* history, per job: the stage whose try block raised, or "none"
    taxResult,  \* per job: first field of line 1 of 1.taxAssign/taxAssign.result
    organism,   \* per job: run_pipeline's local variable organism
    pc,         \* per job: where the job is (queue, executor, pipeline line)
    queue,      \* router.analysis_queue
    enqueued,   \* history: the folders in the order of their put()
    started,    \* history: the folders in the order get() returned them
    wpc,        \* per worker: position of the analysis_worker coroutine
    wjob,       \* per worker: its local variable folder (0: none yet)
    form,       \* per request: the form fields upload_file was called with
    hpc,        \* per request: position of the upload_file coroutine
    resp,       \* per request: the HTTP response of upload_file, or "none"
    formData,   \* per job: the content of formData.json
    today,      \* the date datetime.now() gives
    serial_counters, \* the module's dictionary of daily sequence numbers
    folders,    \* the names under anti_form_jobs, as generate_job_id sees them
    assigned,   \* history: the job_ids generate_job_id returned, in order
    attempt,    \* generate_job_id: depth of the recursion of line 104 in the
                \* latest call, and whether that call is still retrying
    hits_summary, \* per job: the file 3.abProfilesCmp/hits_summary.tsv
    reply       \* the request answered by the latest step, if it was a query

\* The variables of upload_file and of generate_job_id.
uploadVars == <<form, hpc, resp, formData>>
idVars == <<today, serial_counters, folders, assigned, attempt>>

\* The variable the stage-3 tools write, and the one of the query endpoints.
toolVars == <<hits_summary>>
queryVars == <<reply>>

\* What the queue and the workers leave alone.
otherVars == <<uploadVars, idVars, toolVars, queryVars>>

vars == <<submitted, stub, dir, errlog, failedAt, taxResult, organism, pc, queue,
          enqueued, started, wpc, wjob, uploadVars, idVars, toolVars, queryVars>>

\* ------------------------------------------------------------ environment

\* What the external programs and the file system do for one job:
\*   "ok"         every tool exits 0 and every write succeeds
\*   "flaky"      any tool may exit non-zero, any write may raise OSError
\*   "badinput"   the stage-1 classifier exits non-zero; writes succeed
\*   "unwritable" the job directory cannot be written: every write raises
\*   "mixedrows"  every tool exits 0 and every write succeeds; the species is
\*                not a known one and hits_summary.tsv has a header line
\*                followed by any rows
\*   "hang"       the stage-1 classifier never returns
OutageStubs == {"badinput", "unwritable"}

\* Tools run under a timeout: one that does not return is killed and its
\* stage fails.
StageOutcomesTimeout(j, stage) ==
    CASE stub[j] \in {"ok", "mixedrows"} -> {"ok"}
      [] stub[j] = "flaky" -> {"ok", "fail"}
      [] stub[j] = "badinput" -> IF stage = "s1" THEN {"fail"} ELSE {"ok"}
      [] stub[j] = "hang" -> IF stage = "s1" THEN {"fail"} ELSE {"ok"}
      [] OTHER -> {"fail"}

\* subprocess.run(cmd, check=True) together with ensure_dir and the marker
\* write of the same try block: "ok" or "fail" (an exception in the block).
StageOutcomes(j, stage) ==
    CASE stub[j] \in {"ok", "mixedrows"} -> {"ok"}
      [] stub[j] = "flaky" -> {"ok", "fail"}
      [] stub[j] = "badinput" -> IF stage = "s1" THEN {"fail"} ELSE {"ok"}
      [] stub[j] = "hang" -> IF stage = "s1" THEN {} ELSE {"ok"}
      [] OTHER -> {"fail"}

\* with open(path, mode) as f: f.write(...): "ok", "openfail" (open raised,
\* nothing created) or "writefail" (created, then write/close raised).
WriteOutcomes(j) ==
    CASE stub[j] \in {"ok", "badinput", "mixedrows", "hang"} -> {"ok"}
      [] stub[j] = "flaky" -> {"ok", "openfail", "writefail"}
      [] OTHER -> {"openfail"}

\* open(path, "w").close() of a zero-byte marker file.
TouchOutcomes(j) == WriteOutcomes(j) \ {"writefail"}

\* First tab-separated field of the first line of taxAssign.result, as its
\* underscore-separated components; <<>> stands for a missing result file.
MissingResult == <<>>
TaxResults ==
    { <<"Acinetobacter", "baumannii">>, <<"Unknown", "species">>,
      <<"Acinetobacter", "baumannii", "ATCC17978">>, MissingResult }

\* What stage 1 can leave as its result for job j.
StageOneResults(j) ==
    CASE stub[j] = "ok" -> {<<"Acinetobacter", "baumannii">>, <<"Unknown", "species">>}
      [] stub[j] = "mixedrows" -> {<<"Unknown", "species">>}
      [] OTHER -> TaxResults

\* A hits_summary.tsv of a header line and one record of seven fields.
WellFormedHits == [exists |-> TRUE, rows |-> <<7, 7>>]

\* The numbers of fields of a line after the header: an empty line, a line
\* one field short, a full one.
RowWidths == {0, 6, 7}

RECURSIVE RowsUpTo(_)
RowsUpTo(n) ==
    IF n = 0 THEN {<<>>}
    ELSE LET shorter == RowsUpTo(n - 1) IN
           shorter \cup {Append(r, w) : r \in {q \in shorter : Len(q) = n - 1}, w \in RowWidths}

\* What the stage-3 tool can leave as hits_summary.tsv for job j: a flaky
\* tool may leave no file or an empty one.
HitsFiles(j) ==
    CASE stub[j] = "mixedrows" ->
           {[exists |-> TRUE, rows |-> <<7>> \o r] : r \in RowsUpTo(MaxRows)}
      [] stub[j] = "flaky" ->
           {[exists |-> FALSE, rows |-> <<>>], [exists |-> TRUE, rows |-> <<>>], WellFormedHits}
      [] OTHER -> {WellFormedHits}

\* ------------------------------------------------------------ job directory

Has(j, f) == \E i \in 1 .. Len(dir[j]) : dir[j][i] = f

\* Creating a file: a new name is appended, an existing file keeps its place.
Touch(d, f) == IF \E i \in 1 .. Len(d) : d[i] = f THEN d ELSE Append(d, f)

Pos(j, f) == CHOOSE i \in 1 .. Len(dir[j]) : dir[j][i] = f

\* --------------------------------------------------------------- initially

\* No request received, no formData.json written.
NoForm == [gcaCode |-> "", email |-> "", file |-> FALSE]
NoData == <<>>

\* The dates the clock shows, as the eight characters of strftime("%Y%m%d").
FirstDay == <<"2", "0", "2", "6", "1", "1", "0", "2">>
NextDay == <<"2", "0", "2", "6", "1", "1", "0", "3">>
Days == {FirstDay, NextDay}

\* No call of generate_job_id has been made.
NoAttempt == [depth |-> 0, retrying |-> FALSE]

\* serial_counters = {}: a day without an entry is mapped to 0.
NoCounters == [d \in Days |-> 0]

\* hits_summary.tsv: whether the file exists, and the number of
\* tab-separated fields of each of its lines, the header line first.
NoHits == [exists |-> FALSE, rows |-> <<>>]

\* The latest step answered no query.
NoReply == [kind |-> "none", request |-> <<>>, answer |-> "none"]

\* start_analysis_workers: an empty queue, and the workers all waiting in get().
Init ==
    /\ submitted = 0
    /\ stub = [j \in JobIds |-> "ok"]
    /\ dir = [j \in JobIds |-> <<>>]
    /\ errlog = [j \in JobIds |-> <<>>]
    /\ failedAt = [j \in JobIds |-> "none"]
    /\ taxResult = [j \in JobIds |-> MissingResult]
    /\ organism = [j \in JobIds |-> "unset"]
    /\ pc = [j \in JobIds |-> "new"]
    /\ queue = <<>>
    /\ enqueued = <<>>
    /\ started = <<>>
    /\ wpc = [w \in Workers |-> "get"]
    /\ wjob = [w \in Workers |-> 0]
    /\ form = [j \in UploadIds |-> NoForm]
    /\ hpc = [j \in UploadIds |-> "none"]
    /\ resp = [j \in UploadIds |-> "none"]
    /\ formData = [j \in UploadIds |-> NoData]
    /\ today = FirstDay
    /\ serial_counters = NoCounters
    /\ folders = {}
    /\ assigned = <<>>
    /\ attempt = NoAttempt
    /\ hits_summary = [j \in JobIds |-> NoHits]
    /\ reply = NoReply

\* ------------------------------------------------------------- upload_file

\* A handler that puts the folder of an accepted submission on the queue
\* twice.
SubmitPutsTwice(n, stubs) ==
    /\ submitted < n
    /\ LET j == submitted + 1 IN
         /\ submitted' = j
         /\ \E s \in stubs[j] : stub' = [stub EXCEPT ![j] = s]
         /\ dir' = [dir EXCEPT ![j] = <<"formData.json", "contigFile.fa">>]
         /\ queue' = Append(Append(queue, j), j)
         /\ enqueued' = Append(Append(enqueued, j), j)
         /\ pc' = [pc EXCEPT ![j] = "queued"]
    /\ UNCHANGED <<errlog, failedAt, taxResult, organism, started, wpc, wjob>>

\* An accepted submission: the directory is made, formData.json and
\* contigFile.fa are written, and the folder is put on the queue.  n bounds
\* the number of submissions, stubs[j] is what job j may meet.
Submit(n, stubs) ==
    /\ submitted < n
    /\ LET j == submitted + 1 IN
         /\ submitted' = j
         /\ \E s \in stubs[j] : stub' = [stub EXCEPT ![j] = s]
         /\ dir' = [dir EXCEPT ![j] = <<"formData.json", "contigFile.fa">>]
         /\ queue' = Append(queue, j)
         /\ enqueued' = Append(enqueued, j)
         /\ pc' = [pc EXCEPT ![j] = "queued"]
    /\ UNCHANGED <<errlog, failedAt, taxResult, organism, started, wpc, wjob>>

\* --------------------------------------------------------- analysis_worker

\* The workers suspended in get() run the same coroutine in the same local
\* state, so the one the queue resumes is named by the lowest number.
NextGetter(w) ==
    /\ wpc[w] = "get"
    /\ \A v \in Workers : v < w => wpc[v] # "get"

\* A worker that hands run_pipeline to the executor without awaiting it and
\* goes straight back to get().
WorkerGetNoAwait(w) ==
    /\ NextGetter(w)
    /\ queue # <<>>
    /\ LET j == Head(queue) IN
         /\ queue' = Tail(queue)
         /\ started' = Append(started, j)
         /\ wjob' = [wjob EXCEPT ![w] = j]
         /\ pc' = [pc EXCEPT ![j] = "pending"]
    /\ UNCHANGED <<submitted, stub, dir, errlog, failedAt, taxResult, organism,
                   enqueued, wpc>>

\* A worker that takes the newest folder of the queue instead of the oldest.
WorkerGetLifo(w) ==
    /\ NextGetter(w)
    /\ queue # <<>>
    /\ LET j == queue[Len(queue)] IN
         /\ queue' = SubSeq(queue, 1, Len(queue) - 1)
         /\ started' = Append(started, j)
         /\ wjob' = [wjob EXCEPT ![w] = j]
         /\ wpc' = [wpc EXCEPT ![w] = "await"]
         /\ pc' = [pc EXCEPT ![j] = "pending"]
    /\ UNCHANGED <<submitted, stub, dir, errlog, failedAt, taxResult, organism, enqueued>>

\* folder = await router.analysis_queue.get(), then run_in_executor hands
\* run_pipeline(folder) to the executor and the coroutine awaits its future.
WorkerGet(w) ==
    /\ NextGetter(w)
    /\ queue # <<>>
    /\ LET j == Head(queue) IN
         /\ queue' = Tail(queue)
         /\ started' = Append(started, j)
         /\ wjob' = [wjob EXCEPT ![w] = j]
         /\ wpc' = [wpc EXCEPT ![w] = "await"]
         /\ pc' = [pc EXCEPT ![j] = "pending"]
    /\ UNCHANGED <<submitted, stub, dir, errlog, failedAt, taxResult, organism, enqueued>>

\* Lines of run_pipeline a job can be at while a thread executes it.
PipelineLines == {"s1", "resolve", "s2", "s3", "s4", "s5", "s3b", "parse", "final"}

Executing == {j \in JobIds : pc[j] \in PipelineLines}

\* Handed to the executor and not yet taken back by the worker.
InFlight == {j \in JobIds : pc[j] \in PipelineLines \cup {"pending", "returned", "raised"}}

\* ThreadPoolExecutor(max_workers=ANALYSIS_WORKER_COUNT): a work item is
\* started when one of the max_workers threads is free.
ExecutorHasThread == Cardinality(Executing) < ANALYSIS_WORKER_COUNT

ExecutorStart(j) ==
    /\ pc[j] = "pending"
    /\ ExecutorHasThread
    /\ pc' = [pc EXCEPT ![j] = "s1"]
    /\ UNCHANGED <<submitted, stub, dir, errlog, failedAt, taxResult, organism, queue,
                   enqueued, started, wpc, wjob>>

\* ------------------------------------------------------------ run_pipeline

\* The marker files of run_pipeline and analysis_worker.
MarkerFiles == {"taxAssign_ok", "queryProfile_ok", "abProfilesCmp_ok", "cgProfiles_ok",
                "DendroPlot_ok", "complete_ok"}

\* An except block of run_pipeline: error.log is opened with mode ("w" at
\* stage 1, "a" later), the entry is written, and run_pipeline returns.  An
\* exception raised by the write itself leaves run_pipeline.
LogFailure(j, entry, mode) ==
    \E o \in WriteOutcomes(j) :
      /\ dir' = [dir EXCEPT ![j] = IF o = "openfail" THEN @ ELSE Touch(@, "error.log")]
      /\ errlog' = [errlog EXCEPT ![j] =
                      CASE o = "openfail" -> @
                        [] o = "ok" -> IF mode = "w" THEN <<entry>> ELSE Append(@, entry)
                        [] OTHER -> IF mode = "w" THEN <<>> ELSE @]
      /\ failedAt' = [failedAt EXCEPT ![j] = entry]
      /\ pc' = [pc EXCEPT ![j] = IF o = "ok" THEN "returned" ELSE "raised"]

\* A try block whose except clause logs the failure and lacks the return.
RunStageNoAbort(j, at, marker, entry, mode, next) ==
    /\ pc[j] = at
    /\ \E o \in StageOutcomes(j, at) :
         IF o = "ok"
         THEN /\ dir' = [dir EXCEPT ![j] = Touch(@, marker)]
              /\ pc' = [pc EXCEPT ![j] = next]
              /\ UNCHANGED <<errlog, failedAt>>
         ELSE /\ dir' = [dir EXCEPT ![j] = Touch(@, "error.log")]
              /\ errlog' = [errlog EXCEPT ![j] = Append(@, entry)]
              /\ failedAt' = [failedAt EXCEPT ![j] = entry]
              /\ pc' = [pc EXCEPT ![j] = next]

\* One try block: the tool runs and its marker is created, or the block's
\* except clause logs the failure.
RunStage(j, at, marker, entry, mode, next) ==
    /\ pc[j] = at
    /\ \E o \in StageOutcomes(j, at) :
         IF o = "ok"
         THEN /\ dir' = [dir EXCEPT ![j] = Touch(@, marker)]
              /\ pc' = [pc EXCEPT ![j] = next]
              /\ UNCHANGED <<errlog, failedAt>>
         ELSE LogFailure(j, entry, mode)

\* 1. Taxonomic Assignment (lines 73-95); the tool writes taxAssign.result.
Stage1(j) ==
    /\ RunStage(j, "s1", "taxAssign_ok", "Taxonomic Assignment", "w", "resolve")
    /\ IF pc'[j] = "resolve"
       THEN \E r \in StageOneResults(j) :
              taxResult' = [taxResult EXCEPT ![j] = r]
       ELSE UNCHANGED taxResult
    /\ UNCHANGED <<submitted, stub, organism, queue, enqueued, started, wpc, wjob>>

\* sp_full.split("_", 1): the first component and the rest, or the field
\* alone when it holds no underscore.
SplitOnce(field) == IF Len(field) >= 2 THEN << <<field[1]>>, Tail(field) >> ELSE <<field>>

\* sp_key = f"{sp_parts[0]}_{sp_parts[1]}" if len(sp_parts) == 2 else sp_full
SpKey(field) ==
    LET sp_parts == SplitOnce(field) IN
      IF Len(sp_parts) = 2 THEN sp_parts[1] \o sp_parts[2] ELSE field

\* The dictionary mapping of lines 106-112.
mapping ==
    ( <<"Acinetobacter", "baumannii">> :> "AB" ) @@
    ( <<"Enterococcus", "faecium">> :> "EF" ) @@
    ( <<"Klebsiella", "pneumoniae">> :> "KP" ) @@
    ( <<"Pseudomonas", "aeruginosa">> :> "PA" ) @@
    ( <<"Staphylococcus", "aureus">> :> "SA" )

KnownOrganisms == {"AB", "EF", "KP", "PA", "SA"}

\* Lines 98-115: mapping.get(sp_key, None); a result file that cannot be
\* read raises inside the try and gives None as well.
ResolveOrganism(field) ==
    IF field = MissingResult THEN "None"
    ELSE IF SpKey(field) \in DOMAIN mapping THEN mapping[SpKey(field)] ELSE "None"

\* A pipeline that runs the profiling stages whatever the organism is.
ResolveIgnoresOrganism(j) ==
    /\ pc[j] = "resolve"
    /\ organism' = [organism EXCEPT ![j] = ResolveOrganism(taxResult[j])]
    /\ pc' = [pc EXCEPT ![j] = "s2"]
    /\ UNCHANGED <<submitted, stub, dir, errlog, failedAt, taxResult, queue, enqueued,
                   started, wpc, wjob>>

\* A branch that enters 3A at the antibiogram comparison, without 3A-1.
ResolveSkipsProfiling(j) ==
    /\ pc[j] = "resolve"
    /\ organism' = [organism EXCEPT ![j] = ResolveOrganism(taxResult[j])]
    /\ pc' = [pc EXCEPT ![j] = IF organism'[j] \in KnownOrganisms THEN "s3" ELSE "s3b"]
    /\ UNCHANGED <<submitted, stub, dir, errlog, failedAt, taxResult, queue, enqueued,
                   started, wpc, wjob>>

\* 2. Species resolution and the branch of line 118.
Resolve(j) ==
    /\ pc[j] = "resolve"
    /\ organism' = [organism EXCEPT ![j] = ResolveOrganism(taxResult[j])]
    /\ pc' = [pc EXCEPT ![j] = IF organism'[j] \in KnownOrganisms THEN "s2" ELSE "s3b"]
    /\ UNCHANGED <<submitted, stub, dir, errlog, failedAt, taxResult, queue, enqueued,
                   started, wpc, wjob>>

\* 3A-1 .. 3A-4 (lines 121-216) and 3B (lines 220-237).
Stage2(j) ==
    /\ RunStage(j, "s2", "queryProfile_ok", "Query-Profiling", "a", "s3")
    /\ UNCHANGED <<submitted, stub, taxResult, organism, queue, enqueued, started, wpc, wjob>>

Stage3(j) ==
    /\ RunStage(j, "s3", "abProfilesCmp_ok", "Ab-Comparison-alleticDist", "a", "s4")
    /\ IF pc'[j] = "s4"
       THEN \E h \in HitsFiles(j) : hits_summary' = [hits_summary EXCEPT ![j] = h]
       ELSE UNCHANGED hits_summary
    /\ UNCHANGED <<submitted, stub, taxResult, organism, queue, enqueued, started, wpc, wjob>>

Stage4(j) ==
    /\ RunStage(j, "s4", "cgProfiles_ok", "cgMLST-Profiler", "a", "s5")
    /\ UNCHANGED <<submitted, stub, taxResult, organism, queue, enqueued, started, wpc, wjob>>

Stage5(j) ==
    /\ RunStage(j, "s5", "DendroPlot_ok", "Dendrogram or Heatmap", "a", "final")
    /\ UNCHANGED <<submitted, stub, taxResult, organism, queue, enqueued, started, wpc, wjob>>

SimpleCmp(j) ==
    /\ RunStage(j, "s3b", "abProfilesCmp_ok", "Simple Ab-Comparison", "a", "parse")
    /\ IF pc'[j] = "parse"
       THEN \E h \in HitsFiles(j) : hits_summary' = [hits_summary EXCEPT ![j] = h]
       ELSE UNCHANGED hits_summary
    /\ UNCHANGED <<submitted, stub, taxResult, organism, queue, enqueued, started, wpc, wjob>>

\* Lines 249-252: the rows read after the header, those of fewer than seven
\* fields skipped.
ReadRows(rows) == SelectSeq(rows, LAMBDA width : ~(width < 7))

\* A parse that gives up at the first line of fewer than seven fields.
ParseHitsSummaryStrict(file) ==
    IF ~file.exists THEN "fail"
    ELSE IF file.rows = <<>> THEN "fail"
    ELSE IF \E i \in 2 .. Len(file.rows) : file.rows[i] < 7 THEN "fail"
    ELSE "ok"

\* Lines 245-252 on a file: open() raises when the file is missing, and
\* next(reader) raises StopIteration when it has no line.
ParseHitsSummary(file) ==
    IF ~file.exists THEN "fail"
    ELSE IF file.rows = <<>> THEN "fail"
    ELSE "ok"

\* The try block of lines 240-253 for job j: what the file gives, or an
\* error of the read.
ParseOutcomes(j) ==
    IF ParseHitsSummary(hits_summary[j]) = "fail" THEN {"fail"} ELSE StageOutcomes(j, "parse")

\* Lines 240-257: hits_summary.tsv is read; a missing or empty file raises
\* inside the try.  No marker is created.
ParseHits(j) ==
    /\ pc[j] = "parse"
    /\ \E o \in ParseOutcomes(j) :
         IF o = "ok"
         THEN /\ pc' = [pc EXCEPT ![j] = "final"]
              /\ UNCHANGED <<dir, errlog, failedAt>>
         ELSE LogFailure(j, "Parsing hits_summary", "a")
    /\ UNCHANGED <<submitted, stub, taxResult, organism, queue, enqueued, started, wpc, wjob>>

\* How many of the two files of lines 260-262 are created before an open()
\* raises: both, or none or one when a write can fail.
FinalizeOutcomes(j) ==
    (IF "ok" \in TouchOutcomes(j) THEN {2} ELSE {}) \cup
    (IF "openfail" \in TouchOutcomes(j)
     THEN (IF "ok" \in TouchOutcomes(j) THEN {0, 1} ELSE {0})
     ELSE {})

\* A last step that removes the stage markers once complete_ok is written.
FinalizeTidiesUp(j) ==
    /\ pc[j] = "final"
    /\ dir' = [dir EXCEPT ![j] =
                 Touch(Touch(SelectSeq(@, LAMBDA f : f \notin MarkerFiles), "complete_ok"),
                       "country")]
    /\ pc' = [pc EXCEPT ![j] = "returned"]
    /\ UNCHANGED <<submitted, stub, errlog, failedAt, taxResult, organism, queue, enqueued,
                   started, wpc, wjob>>

\* 4. Lines 260-262, outside every try: complete_ok, then country.
Finalize(j) ==
    /\ pc[j] = "final"
    /\ \E written \in FinalizeOutcomes(j) :
         /\ dir' = [dir EXCEPT ![j] =
                      CASE written = 0 -> @
                        [] written = 1 -> Touch(@, "complete_ok")
                        [] OTHER -> Touch(Touch(@, "complete_ok"), "country")]
         /\ pc' = [pc EXCEPT ![j] = IF written = 2 THEN "returned" ELSE "raised"]
    /\ UNCHANGED <<submitted, stub, errlog, failedAt, taxResult, organism, queue, enqueued,
                   started, wpc, wjob>>

\* ------------------------------------------- analysis_worker, lines 311-320

\* What lines 311-318 can do for job j: "complete" (run_pipeline returned
\* and line 314 created complete_ok), "logged" (run_pipeline or line 314
\* raised and the except clause wrote pipeline_error.log) or "dead" (the
\* except clause itself raised).
ResumeOutcomes(j) ==
    LET handled == pc[j] = "raised" \/ "openfail" \in TouchOutcomes(j) IN
      (IF pc[j] = "returned" /\ "ok" \in TouchOutcomes(j) THEN {"complete"} ELSE {}) \cup
      (IF handled /\ "ok" \in WriteOutcomes(j) THEN {"logged"} ELSE {}) \cup
      (IF handled /\ WriteOutcomes(j) # {"ok"} THEN {"dead"} ELSE {})

\* A worker that puts the folder back on the queue when its pipeline failed.
WorkerResumeRetry(w) ==
    /\ wpc[w] = "await"
    /\ pc[wjob[w]] \in {"returned", "raised"}
    /\ LET j == wjob[w] IN
         IF pc[j] = "returned" /\ failedAt[j] = "none"
         THEN /\ dir' = [dir EXCEPT ![j] = Touch(@, "complete_ok")]
              /\ pc' = [pc EXCEPT ![j] = "done"]
              /\ UNCHANGED queue
         ELSE /\ dir' = [dir EXCEPT ![j] = Touch(@, "pipeline_error.log")]
              /\ pc' = [pc EXCEPT ![j] = "queued"]
              /\ queue' = Append(queue, j)
    /\ wpc' = [wpc EXCEPT ![w] = "get"]
    /\ wjob' = [wjob EXCEPT ![w] = 0]
    /\ UNCHANGED <<submitted, stub, errlog, failedAt, taxResult, organism, enqueued, started>>

\* The future of run_in_executor is done.  If run_pipeline returned, line 314
\* creates complete_ok; if it raised, or line 314 raises, the except clause
\* writes pipeline_error.log; finally task_done().  An exception raised by
\* the except clause itself leaves the while loop: the task ends.  (dir
\* records pipeline_error.log when it was written; a file left empty by a
\* failed write is not recorded.)
WorkerResume(w) ==
    /\ wpc[w] = "await"
    /\ pc[wjob[w]] \in {"returned", "raised"}
    /\ LET j == wjob[w] IN
         \E o \in ResumeOutcomes(j) :
           /\ dir' = [dir EXCEPT ![j] =
                        CASE o = "complete" -> Touch(@, "complete_ok")
                          [] o = "logged" -> Touch(@, "pipeline_error.log")
                          [] OTHER -> @]
           /\ wpc' = [wpc EXCEPT ![w] = IF o = "dead" THEN "dead" ELSE "get"]
           /\ pc' = [pc EXCEPT ![j] = "done"]
    /\ wjob' = [wjob EXCEPT ![w] = 0]
    /\ UNCHANGED <<submitted, stub, errlog, failedAt, taxResult, organism, queue, enqueued, started>>

\* ---------------------------------------------------------- specifications

PipelineStep(j) ==
    \/ Stage1(j) /\ UNCHANGED hits_summary
    \/ Resolve(j) /\ UNCHANGED hits_summary
    \/ Stage2(j) /\ UNCHANGED hits_summary
    \/ Stage3(j)
    \/ Stage4(j) /\ UNCHANGED hits_summary
    \/ Stage5(j) /\ UNCHANGED hits_summary
    \/ SimpleCmp(j)
    \/ ParseHits(j) /\ UNCHANGED hits_summary
    \/ Finalize(j) /\ UNCHANGED hits_summary

\* Every submission may meet any behaviour of the tools and of the disk (a
\* flaky job in which nothing fails behaves as an "ok" one).
AnyStub == [j \in JobIds |-> {"flaky"}]

Next ==
    \/ Submit(MaxJobs, AnyStub) /\ UNCHANGED otherVars
    \/ \E w \in Workers : WorkerGet(w) /\ UNCHANGED otherVars
    \/ \E j \in JobIds : ExecutorStart(j) /\ UNCHANGED otherVars
    \/ \E j \in JobIds : PipelineStep(j) /\ UNCHANGED <<uploadVars, idVars, queryVars>>
    \/ \E w \in Workers : WorkerResume(w) /\ UNCHANGED otherVars

Spec == Init /\ [][Next]_vars

\* More submissions than workers; every assembly but the last is rejected by
\* the stage-1 classifier, the last one runs the whole pipeline.
PoolMix == [j \in JobIds |-> IF j < PoolJobs THEN {"badinput"} ELSE {"ok"}]

NextPool ==
    \/ Submit(PoolJobs, PoolMix) /\ UNCHANGED otherVars
    \/ \E w \in Workers : WorkerGet(w) /\ UNCHANGED otherVars
    \/ \E j \in JobIds : ExecutorStart(j) /\ UNCHANGED otherVars
    \/ \E j \in JobIds : PipelineStep(j) /\ UNCHANGED <<uploadVars, idVars, queryVars>>
    \/ \E w \in Workers : WorkerResume(w) /\ UNCHANGED otherVars

SpecPool == Init /\ [][NextPool]_vars

\* An outage: the first ANALYSIS_WORKER_COUNT submissions are rejected by the
\* classifier, some of them into a directory that cannot be written; the
\* submissions after them meet tools and a disk that work.
OutageMix == [j \in JobIds |-> IF j <= ANALYSIS_WORKER_COUNT THEN OutageStubs ELSE {"ok"}]

NextOutage ==
    \/ Submit(PoolJobs, OutageMix) /\ UNCHANGED otherVars
    \/ \E w \in Workers : WorkerGet(w) /\ UNCHANGED otherVars
    \/ \E j \in JobIds : ExecutorStart(j) /\ UNCHANGED otherVars
    \/ \E j \in JobIds : PipelineStep(j) /\ UNCHANGED <<uploadVars, idVars, queryVars>>
    \/ \E w \in Workers : WorkerResume(w) /\ UNCHANGED otherVars

SpecOutage == Init /\ [][NextOutage]_vars

\* ------------------------------------------------------------ check_status

\* os.path.isdir(folder): upload_file made the directory.
DirExists(j) == j <= submitted

\* A status query that looks at the queue and the workers instead of the
\* directory.
CheckStatusFromQueue(j) ==
    IF ~DirExists(j) THEN "404"
    ELSE IF pc[j] = "done" THEN "done"
    ELSE "running"

\* A status query that also looked at error.log.
CheckStatusThreeStates(j) ==
    IF ~DirExists(j) THEN "404"
    ELSE IF Has(j, "complete_ok") THEN "done"
    ELSE IF Has(j, "error.log") THEN "failed"
    ELSE "running"

\* GET /status/{job_id}: 404 without a directory, done with complete_ok,
\* running in every other case.
CheckStatus(j) ==
    IF ~DirExists(j) THEN "404"
    ELSE IF Has(j, "complete_ok") THEN "done"
    ELSE "running"

\* ------------------------------------------------------------------ claims

\* The worker is through with job j: analysis_worker reached task_done().
Processed(j) == pc[j] = "done"

\* C1: for every job the worker has finished processing, exactly one of
\* complete_ok and error.log exists in its directory: never both, never
\* neither.
C1_ExactlyOneTerminalMarker ==
    \A j \in 1 .. submitted :
      Processed(j) => (Has(j, "complete_ok") <=> ~Has(j, "error.log"))

\* The stage markers of the branch job j took, in the order of the stages.
BranchAMarkers == <<"taxAssign_ok", "queryProfile_ok", "abProfilesCmp_ok",
                    "cgProfiles_ok", "DendroPlot_ok">>
BranchBMarkers == <<"taxAssign_ok", "abProfilesCmp_ok">>

BranchMarkers(j) ==
    IF organism[j] \in KnownOrganisms THEN BranchAMarkers ELSE BranchBMarkers

\* C2: complete_ok present implies taxAssign_ok present and every stage
\* marker of the branch taken present; a job whose stage 1 failed never has
\* complete_ok.
C2_CompleteOnlyAfterLastStage ==
    \A j \in 1 .. submitted :
      Has(j, "complete_ok") =>
        /\ organism[j] # "unset"
        /\ \A i \in 1 .. Len(BranchMarkers(j)) : Has(j, BranchMarkers(j)[i])

\* C3 as claimed: the status query answers failed for a directory that holds
\* error.log and no complete_ok, done with complete_ok, pending (the code's
\* word is running) otherwise.
C3_ThreeStateQuery ==
    \A j \in 1 .. submitted :
      CheckStatus(j) = CASE Has(j, "complete_ok") -> "done"
                          [] Has(j, "error.log") -> "failed"
                          [] OTHER -> "running"

\* C3 as amended: the status query is derived from complete_ok alone and
\* has two answers for an existing directory, done when complete_ok is
\* present and running otherwise; a directory that holds error.log and no
\* complete_ok is answered running.
C3_TwoStateQuery ==
    \A j \in 1 .. submitted :
      LET answer == CheckStatus(j) IN
        /\ answer \in {"done", "running"}
        /\ answer = "done" <=> Has(j, "complete_ok")
        /\ Has(j, "error.log") /\ ~Has(j, "complete_ok") => answer = "running"

\* A failed stage has written error.log and the worker has not resumed yet.
C3_Witness ==
    \E j \in JobIds :
      /\ Has(j, "error.log") /\ ~Has(j, "complete_ok")
      /\ pc[j] = "returned"
      /\ CheckStatus(j) = "running"

\* C4: at every instant at most ANALYSIS_WORKER_COUNT pipelines execute, for
\* more submissions than workers; every run_pipeline call handed to the
\* executor is awaited by exactly one worker, so each worker has at most one
\* in flight and at most ANALYSIS_WORKER_COUNT are in flight.
C4_PoolBound ==
    /\ Cardinality(Executing) <= ANALYSIS_WORKER_COUNT
    /\ Cardinality(InFlight) <= ANALYSIS_WORKER_COUNT
    /\ \A j \in InFlight :
         Cardinality({w \in Workers : wpc[w] = "await" /\ wjob[w] = j}) = 1
    /\ \A w \in Workers : wpc[w] = "await" => wjob[w] \in InFlight

\* Every worker's pipeline is executing and a further job waits in the queue.
C4_Witness ==
    /\ Cardinality(Executing) = ANALYSIS_WORKER_COUNT
    /\ submitted > ANALYSIS_WORKER_COUNT
    /\ queue # <<>>

Count(seq, x) == Cardinality({i \in 1 .. Len(seq) : seq[i] = x})

\* C5: every enqueued folder is dequeued at most once and is then not on the
\* queue again, whatever the outcome of its pipeline: each put() is matched
\* by the entry still waiting or by exactly one get(), and at most one
\* worker holds the folder.
C5_DequeuedOnce ==
    \A j \in 1 .. submitted :
      LET gets == Count(started, j)
          waiting == Count(queue, j)
      IN /\ gets <= 1
         /\ gets + waiting = Count(enqueued, j)
         /\ Cardinality({w \in Workers : wpc[w] = "await" /\ wjob[w] = j}) <= 1
         /\ Processed(j) => gets = 1 /\ waiting = 0

\* A job whose pipeline failed has been processed and was not put back.
C5_Witness ==
    \E j \in JobIds :
      /\ Processed(j) /\ failedAt[j] # "none"
      /\ Count(started, j) = 1
      /\ queue = <<>>

Index(seq, x) == CHOOSE i \in 1 .. Len(seq) : seq[i] = x

\* C6: folders are dequeued in the order of their enqueue: if A's put()
\* precedes B's and B has been dequeued, A was dequeued before B.
C6_FifoDequeue ==
    \A x, y \in 1 .. Len(enqueued) :
      (x < y /\ Count(started, enqueued[y]) > 0) =>
        /\ Count(started, enqueued[x]) > 0
        /\ Index(started, enqueued[x]) < Index(started, enqueued[y])

\* Two jobs were dequeued in order and the later one finished first.
C6_Witness ==
    \E a, b \in JobIds :
      /\ Count(started, a) = 1 /\ Count(started, b) = 1
      /\ Index(started, a) < Index(started, b)
      /\ Processed(b) /\ ~Processed(a)

\* C7: in every reachable state all ANALYSIS_WORKER_COUNT worker loops are
\* alive: no exception ends a worker task.
C7_WorkersStayAlive == \A w \in Workers : wpc[w] # "dead"

\* No worker, executor thread or pipeline can take a step: whatever has not
\* happened to the submitted jobs by now never happens.
Quiescent ==
    ~ENABLED ( \/ \E w \in Workers : WorkerGet(w)
               \/ \E j \in JobIds : ExecutorStart(j)
               \/ \E j \in JobIds : PipelineStep(j)
               \/ \E w \in Workers : WorkerResume(w) )

Stage1Failed(j) == failedAt[j] = "Taxonomic Assignment"

\* C8: if job A's stage 1 tool failed and job B was submitted with an
\* all-successful tool chain, B reaches complete_ok (it has it once the
\* system has come to rest), and nothing of a failure is written into B's
\* directory.
C8_FailureIsolation ==
    \A a, b \in JobIds :
      (a # b /\ Stage1Failed(a) /\ DirExists(b) /\ stub[b] = "ok") =>
        /\ ~Has(b, "error.log") /\ ~Has(b, "pipeline_error.log")
        /\ Quiescent => Has(b, "complete_ok")

\* The stage markers of job j's directory, in the order of their creation.
StageMarkers(j) ==
    SelectSeq(dir[j], LAMBDA f : f \in {"taxAssign_ok", "queryProfile_ok",
                                       "abProfilesCmp_ok", "cgProfiles_ok",
                                       "DendroPlot_ok"})

IsPrefix(p, q) == Len(p) <= Len(q) /\ \A i \in 1 .. Len(p) : p[i] = q[i]

\* run_pipeline is over for job j: it returned or raised.
PipelineOver(j) == pc[j] \in {"returned", "raised", "done"}

\* The marker the try block of a failure entry would have created.
MarkerOf(entry) ==
    CASE entry = "Taxonomic Assignment" -> "taxAssign_ok"
      [] entry = "Query-Profiling" -> "queryProfile_ok"
      [] entry \in {"Ab-Comparison-alleticDist", "Simple Ab-Comparison"} -> "abProfilesCmp_ok"
      [] entry = "cgMLST-Profiler" -> "cgProfiles_ok"
      [] entry = "Dendrogram or Heatmap" -> "DendroPlot_ok"
      [] OTHER -> "none"

\* The stage markers of a directory are a prefix of its branch's stage
\* order, and after a failed stage the pipeline is over without that
\* stage's marker.
MarkersArePrefix(j) ==
    LET made == StageMarkers(j) IN
      /\ IsPrefix(made, BranchMarkers(j))
      /\ organism[j] = "unset" => Len(made) <= 1
      /\ failedAt[j] # "none" => PipelineOver(j) /\ ~Has(j, MarkerOf(failedAt[j]))

PipelineSucceeded(j) == Has(j, "country")

\* C10: for every job whose organism is one of AB, EF, KP, PA, SA and whose
\* pipeline succeeds, the four branch-A markers are present and were created
\* in the order queryProfile_ok, abProfilesCmp_ok, cgProfiles_ok,
\* DendroPlot_ok, all before complete_ok.
C10_BranchAMarkerOrder ==
    \A j \in 1 .. submitted :
      (organism[j] \in KnownOrganisms /\ PipelineSucceeded(j)) =>
        /\ \A f \in {"queryProfile_ok", "abProfilesCmp_ok", "cgProfiles_ok",
                     "DendroPlot_ok", "complete_ok"} : Has(j, f)
        /\ Pos(j, "queryProfile_ok") < Pos(j, "abProfilesCmp_ok")
        /\ Pos(j, "abProfilesCmp_ok") < Pos(j, "cgProfiles_ok")
        /\ Pos(j, "cgProfiles_ok") < Pos(j, "DendroPlot_ok")
        /\ Pos(j, "DendroPlot_ok") < Pos(j, "complete_ok")

\* An Acinetobacter baumannii job ran the whole of branch A and was processed.
C10_Witness ==
    \E j \in JobIds :
      /\ organism[j] = "AB"
      /\ PipelineSucceeded(j)
      /\ Processed(j)

\* ----------------------------------------------------------------- C11

\* The markers created only inside the branch of line 118.
BranchAOnlyMarkers == {"queryProfile_ok", "cgProfiles_ok", "DendroPlot_ok"}

\* C11: a job whose organism is not one of the five known abbreviations (an
\* unknown species, or a stage-1 result that cannot be read) never holds
\* queryProfile_ok, cgProfiles_ok or DendroPlot_ok, in any state it goes
\* through; of the branch markers it can only hold abProfilesCmp_ok.
C11_BranchBOnlyMarker ==
    \A j \in 1 .. submitted :
      organism[j] \notin KnownOrganisms =>
        \A f \in BranchAOnlyMarkers : ~Has(j, f)

\* A job whose stage-1 result could not be read ran branch B to its end.
C11_Witness ==
    \E j \in JobIds :
      /\ taxResult[j] = MissingResult
      /\ organism[j] = "None"
      /\ Has(j, "taxAssign_ok") /\ Has(j, "abProfilesCmp_ok")
      /\ Has(j, "country")
      /\ Processed(j)

\* ----------------------------------------------------------------- C12

\* C12: marker files are append-only: a marker (complete_ok or a stage's
\* _ok file) that exists in a job directory exists after every step of the
\* submission handler, the workers and the pipeline, and a job directory
\* that exists is never deleted.
C12_MarkersAppendOnly ==
    [][\A j \in JobIds :
         /\ DirExists(j) => DirExists(j)'
         /\ \A f \in MarkerFiles : Has(j, f) => Has(j, f)']_vars

\* A job ran the whole of branch A and was processed by its worker, while
\* the other jobs were submitted, failed and were processed: it holds all
\* six markers.
C12_Witness ==
    \E j \in JobIds :
      /\ \A f \in MarkerFiles : Has(j, f)
      /\ Processed(j)
      /\ \A k \in 1 .. submitted : Processed(k)
      /\ \E k \in 1 .. submitted : Has(k, "error.log")

\* ------------------------------------------------------- the query endpoints

\* The name of the directory of the j-th submission under anti_form_jobs.
JobName(j) == ToString(j)

\* C13: status(job_id) answers 404 exactly when job_id has no directory;
\* for an existing directory it answers done if and only if complete_ok is
\* present and running in every other case.  The answer is a function of the
\* directory alone: the queue and the worker pool are not consulted.
C13_StatusFromDirectory ==
    \A j \in JobIds :
      /\ CheckStatus(j) = "404" <=> ~DirExists(j)
      /\ DirExists(j) =>
           /\ CheckStatus(j) = "done" <=> Has(j, "complete_ok")
           /\ CheckStatus(j) # "done" => CheckStatus(j) = "running"
      /\ \A k \in JobIds :
           (DirExists(j) /\ DirExists(k) /\ dir[j] = dir[k]) => CheckStatus(j) = CheckStatus(k)

\* The three answers occur together: a processed job is done, a job whose
\* pipeline is still running is running, and a job not yet submitted is 404.
C13_Witness ==
    \E a, b, c \in JobIds :
      /\ Processed(a) /\ CheckStatus(a) = "done"
      /\ pc[b] \in PipelineLines /\ CheckStatus(b) = "running"
      /\ ~DirExists(c) /\ CheckStatus(c) = "404"

\* ----------------------------------------------------------------- C14

\* A file name as its pieces between dots: name.endswith("." + ext) holds
\* when there are at least two pieces and the last one is ext.
Dotted(name) ==
    CASE name = "formData.json" -> <<"formData", "json">>
      [] name = "contigFile.fa" -> <<"contigFile", "fa">>
      [] name = "error.log" -> <<"error", "log">>
      [] name = "pipeline_error.log" -> <<"pipeline_error", "log">>
      [] name = "taxAssign.result" -> <<"taxAssign", "result">>
      [] name = "alleleMatrix.1" -> <<"alleleMatrix", "1">>
      [] name = "hits_table.tsv" -> <<"hits_table", "tsv">>
      [] name = "hits_summary.tsv" -> <<"hits_summary", "tsv">>
      [] name = "main.py" -> <<"main", "py">>
      [] OTHER -> <<name>>

\* fname.endswith((".tsv", ".png", ".pdf", ".out", ".html")), line 380.
EndsWithResultSuffix(name) ==
    LET pieces == Dotted(name) IN
      /\ Len(pieces) >= 2
      /\ pieces[Len(pieces)] \in {"tsv", "png", "pdf", "out", "html"}

\* The files the tools leave in their output directories, by the names
\* run_pipeline reads them under: each is present once its tool has exited
\* with status 0 (an unreadable taxAssign.result or hits_summary.tsv is one
\* that is not there).
ToolOutputs(j) ==
    (IF Has(j, "taxAssign_ok") /\ taxResult[j] # MissingResult
     THEN {<<"1.taxAssign", "taxAssign.result">>} ELSE {}) \cup
    (IF Has(j, "queryProfile_ok") THEN {<<"2.QueryProfile", "alleleMatrix.1">>} ELSE {}) \cup
    (IF Has(j, "abProfilesCmp_ok") THEN {<<"3.abProfilesCmp", "hits_table.tsv">>} ELSE {}) \cup
    (IF Has(j, "abProfilesCmp_ok") /\ hits_summary[j].exists
     THEN {<<"3.abProfilesCmp", "hits_summary.tsv">>} ELSE {})

\* The relative paths of the files os.walk(folder) finds.
JobFiles(j) == {<<dir[j][i]>> : i \in 1 .. Len(dir[j])} \cup ToolOutputs(j)

\* A result query that lists the files of a job that is not complete.
GetResultUngated(j) ==
    IF ~DirExists(j) THEN [code |-> "404", files |-> {}]
    ELSE [code |-> "200", files |-> {f \in JobFiles(j) : EndsWithResultSuffix(f[Len(f)])}]

\* get_result, lines 366-383 (and the same two checks at api_result.py
\* 291-297): the file list is the set of relative paths, os.walk giving no
\* order.
GetResult(j) ==
    IF ~DirExists(j) THEN [code |-> "404", files |-> {}]
    ELSE IF ~Has(j, "complete_ok") THEN [code |-> "402", files |-> {}]
    ELSE [code |-> "200", files |-> {f \in JobFiles(j) : EndsWithResultSuffix(f[Len(f)])}]

\* The extension allow-list of the specification, on whole file names.
AllowedResultNames == {"hits_table.tsv", "hits_summary.tsv"}

BASE_DIR == <<"myanti_backend">>
JOBS_ROOT == BASE_DIR \o <<"anti_form_jobs">>

\* What an absolute path without "." and ".." names: "dir", "file", "none".
Kind(p) ==
    CASE p = <<>> \/ p = BASE_DIR \/ p = JOBS_ROOT -> "dir"
      [] p = BASE_DIR \o <<"main.py">> -> "file"
      [] Len(p) > 2 /\ SubSeq(p, 1, 2) = JOBS_ROOT ->
           IF \E j \in 1 .. submitted : JobName(j) = p[3]
           THEN LET j == CHOOSE j \in 1 .. submitted : JobName(j) = p[3]
                    rel == SubSeq(p, 4, Len(p))
                IN CASE rel = <<>> -> "dir"
                     [] rel \in JobFiles(j) -> "file"
                     [] \E f \in JobFiles(j) : Len(f) = 2 /\ rel = <<f[1]>> -> "dir"
                     [] OTHER -> "none"
           ELSE "none"
      [] OTHER -> "none"

\* The result of a path lookup that fails.
ENOENT == <<"", "ENOENT">>

\* The operating system's lookup of the components rest from directory cur:
\* "." stays, ".." goes to the parent, a name must exist in cur.
RECURSIVE Lookup(_, _)
Lookup(cur, rest) ==
    IF rest = <<>> THEN cur
    ELSE IF Kind(cur) # "dir" THEN ENOENT
    ELSE LET c == Head(rest) IN
           CASE c = "." -> Lookup(cur, Tail(rest))
             [] c = ".." -> Lookup(IF cur = <<>> THEN cur ELSE SubSeq(cur, 1, Len(cur) - 1),
                                   Tail(rest))
             [] Kind(cur \o <<c>>) = "none" -> ENOENT
             [] OTHER -> Lookup(cur \o <<c>>, Tail(rest))

\* os.path.join(a, b) for a relative b, on components.
PathJoin(a, b) == a \o b

\* @router.get("/download/{job_id}/{filename}"): a path parameter matches
\* one non-empty segment without "/", so a file name of several components
\* matches no route.
RouteMatches(filename) == Len(filename) = 1

\* download_file, lines 396-404.  job_id is one path segment and filename a
\* sequence of components; FileResponse sends a regular file and fails on
\* anything else.
DownloadFile(job_id, filename) ==
    IF ~RouteMatches(filename) THEN [code |-> "404", path |-> ENOENT]
    ELSE LET folder == PathJoin(<<"anti_form_jobs">>, <<job_id>>)
             file_path == PathJoin(folder, filename)
             target == Lookup(BASE_DIR, file_path)
         IN IF Kind(Lookup(BASE_DIR, folder)) # "dir" THEN [code |-> "404", path |-> ENOENT]
            ELSE IF Kind(target) = "none" THEN [code |-> "404", path |-> ENOENT]
            ELSE IF Kind(target) = "file" THEN [code |-> "200", path |-> target]
            ELSE [code |-> "500", path |-> ENOENT]

\* The job_id segments and the file names a client can ask for.
RequestIds == {JobName(j) : j \in JobIds} \cup {".", "..", "nojob"}
RequestNames ==
    { <<"formData.json">>, <<"complete_ok">>, <<"main.py">>, <<"..">>, <<".">>,
      <<"3.abProfilesCmp">>, <<"3.abProfilesCmp", "hits_table.tsv">>,
      <<"..", "..", "main.py">>, <<"nofile">> }

IsInside(p, d) == Len(p) > Len(d) /\ SubSeq(p, 1, Len(d)) = d

\* C15: download(job_id, filename) only serves a file whose resolved path
\* lies inside the directory of that job under anti_form_jobs; a request
\* that resolves anywhere else is rejected.
C15_ServedInsideJobDirectory ==
    \A job_id \in RequestIds, filename \in RequestNames :
      LET r == DownloadFile(job_id, filename) IN
        r.code = "200" => IsInside(r.path, JOBS_ROOT \o <<job_id>>)

\* -------------------------------------------------------------- upload_file

\* The accession codes of the requests, and the characters of each ("LF" is
\* a line feed).
Codes == {"GCA_000000001.1", "GCF_000000002", "GCA_1234", "GCA_000000001+LF"}

Chars(code) ==
    CASE code = "GCA_000000001.1" ->
           <<"G", "C", "A", "_", "0", "0", "0", "0", "0", "0", "0", "0", "1", ".", "1">>
      [] code = "GCF_000000002" ->
           <<"G", "C", "F", "_", "0", "0", "0", "0", "0", "0", "0", "0", "2">>
      [] code = "GCA_1234" -> <<"G", "C", "A", "_", "1", "2", "3", "4">>
      [] code = "GCA_000000001+LF" ->
           <<"G", "C", "A", "_", "0", "0", "0", "0", "0", "0", "0", "0", "1", "LF">>
      [] OTHER -> <<>>

DigitChars == {"0", "1", "2", "3", "4", "5", "6", "7", "8", "9"}

\* re.match(r"^GC[AF]_[0-9]{9}(\.\d)?$", gca_code) is not None; "$" also
\* matches just before a line feed that ends the string.
validate_gca_code(gca_code) ==
    LET c == Chars(gca_code)
        body == IF Len(c) > 0 /\ c[Len(c)] = "LF" THEN SubSeq(c, 1, Len(c) - 1) ELSE c
    IN /\ Len(body) \in {13, 15}
       /\ body[1] = "G" /\ body[2] = "C" /\ body[3] \in {"A", "F"} /\ body[4] = "_"
       /\ \A i \in 5 .. 13 : body[i] \in DigitChars
       /\ Len(body) = 15 => body[14] = "." /\ body[15] \in DigitChars

\* A handler that lets every accession code through.
InvalidCodeIgnored(gcaCode) == FALSE

\* Line 218: if gcaCode and not validate_gca_code(gcaCode).
InvalidCode(gcaCode) == gcaCode # "" /\ ~validate_gca_code(gcaCode)

\* The optional e-mail address of the form: None, or an address.
Emails == {"", "user@lab.org"}

\* Lines 223-229: the dictionary written to formData.json (location and
\* country are passed through; the requests leave them at their defaults).
FormDataOf(f) ==
    [email |-> f.email, gcaCode |-> f.gcaCode, location |-> "", country |-> "-1"]

\* Lines 256-292 for request j: put(folder); without an e-mail address the
\* handler returns at once, with one (email) it suspends in send_email.
PutAndNotify(j, email) ==
    /\ queue' = Append(queue, j)
    /\ enqueued' = Append(enqueued, j)
    /\ pc' = [pc EXCEPT ![j] = "queued"]
    /\ hpc' = [hpc EXCEPT ![j] = IF email # "" THEN "mail" ELSE "responded"]
    /\ resp' = [resp EXCEPT ![j] = IF email # "" THEN "none" ELSE "200"]

\* An HTTPException (or an unhandled exception) ends the handler of j.
Reject(j, status) ==
    /\ pc' = [pc EXCEPT ![j] = "rejected"]
    /\ hpc' = [hpc EXCEPT ![j] = "responded"]
    /\ resp' = [resp EXCEPT ![j] = status]
    /\ UNCHANGED <<queue, enqueued>>

\* A handler that validates the accession code before it makes the job
\* directory: a request answered 400 leaves no directory.
UploadStartValidatesFirst(n, stubs) ==
    /\ submitted < n
    /\ \E code \in Codes, mail \in Emails, f \in BOOLEAN :
         LET j == submitted + 1 IN
           /\ submitted' = IF InvalidCode(code) THEN submitted ELSE j
           /\ \E s \in stubs[j] : stub' = [stub EXCEPT ![j] = s]
           /\ form' = [form EXCEPT ![j] = [gcaCode |-> code, email |-> mail, file |-> f]]
           /\ IF InvalidCode(code)
              THEN /\ Reject(j, "400")
                   /\ UNCHANGED <<dir, formData>>
              ELSE \E wrote \in {"ok", "fail"} :
                     IF wrote = "fail"
                     THEN /\ Reject(j, "500")
                          /\ UNCHANGED <<dir, formData>>
                     ELSE /\ formData' = [formData EXCEPT ![j] = FormDataOf(form'[j])]
                          /\ IF f
                             THEN /\ dir' = [dir EXCEPT ![j] = <<"formData.json">>]
                                  /\ pc' = [pc EXCEPT ![j] = "upload"]
                                  /\ hpc' = [hpc EXCEPT ![j] = "read"]
                                  /\ UNCHANGED <<resp, queue, enqueued>>
                             ELSE \E fetched \in {"ok", "fail"} :
                                    IF fetched = "fail"
                                    THEN /\ dir' = [dir EXCEPT ![j] = <<"formData.json">>]
                                         /\ Reject(j, "500 Genome download failed")
                                    ELSE /\ dir' = [dir EXCEPT ![j] =
                                                      <<"formData.json", "contigFile.fa">>]
                                         /\ PutAndNotify(j, mail)
    /\ UNCHANGED <<errlog, failedAt, taxResult, organism, started, wpc, wjob>>

\* upload_file from line 213 to its first suspension: the directory is made
\* (generate_job_id gives a fresh name), the code is validated, formData.json
\* is written; with a file the handler suspends in file.read(), without one
\* download_genome_seq runs (blocking) and the folder is put on the queue.
\* n bounds the number of requests, stubs[j] is what job j may meet.
UploadStart(n, stubs) ==
    /\ submitted < n
    /\ \E code \in Codes, mail \in Emails, f \in BOOLEAN :
         LET j == submitted + 1 IN
           /\ submitted' = j
           /\ \E s \in stubs[j] : stub' = [stub EXCEPT ![j] = s]
           /\ form' = [form EXCEPT ![j] = [gcaCode |-> code, email |-> mail, file |-> f]]
           /\ IF InvalidCode(code)
              THEN /\ Reject(j, "400")
                   /\ UNCHANGED <<dir, formData>>
              ELSE \E wrote \in {"ok", "fail"} :
                     IF wrote = "fail"
                     THEN /\ Reject(j, "500")
                          /\ UNCHANGED <<dir, formData>>
                     ELSE /\ formData' = [formData EXCEPT ![j] = FormDataOf(form'[j])]
                          /\ IF f
                             THEN /\ dir' = [dir EXCEPT ![j] = <<"formData.json">>]
                                  /\ pc' = [pc EXCEPT ![j] = "upload"]
                                  /\ hpc' = [hpc EXCEPT ![j] = "read"]
                                  /\ UNCHANGED <<resp, queue, enqueued>>
                             ELSE \E fetched \in {"ok", "fail"} :
                                    IF fetched = "fail"
                                    THEN /\ dir' = [dir EXCEPT ![j] = <<"formData.json">>]
                                         /\ Reject(j, "500 Genome download failed")
                                    ELSE /\ dir' = [dir EXCEPT ![j] =
                                                      <<"formData.json", "contigFile.fa">>]
                                         /\ PutAndNotify(j, mail)
    /\ UNCHANGED <<errlog, failedAt, taxResult, organism, started, wpc, wjob>>

\* A handler that enqueues the folder although saving the upload failed.
UploadSaveSwallowsError(j) ==
    /\ hpc[j] = "read"
    /\ \E saved \in {"ok", "fail"} :
         /\ dir' = [dir EXCEPT ![j] = IF saved = "ok" THEN Touch(@, "contigFile.fa") ELSE @]
         /\ PutAndNotify(j, form[j].email)
    /\ UNCHANGED <<submitted, stub, errlog, failedAt, taxResult, organism, started, wpc,
                   wjob, form, formData>>

\* Lines 238-244 and on: file.read() returns, contigFile.fa is written and
\* the folder is put on the queue; an exception of the read or of the write
\* gives 500.
UploadSave(j) ==
    /\ hpc[j] = "read"
    /\ \E saved \in {"ok", "fail"} :
         IF saved = "fail"
         THEN /\ Reject(j, "500 Fasta saving failed")
              /\ UNCHANGED dir
         ELSE /\ dir' = [dir EXCEPT ![j] = Touch(@, "contigFile.fa")]
              /\ PutAndNotify(j, form[j].email)
    /\ UNCHANGED <<submitted, stub, errlog, failedAt, taxResult, organism, started, wpc,
                   wjob, form, formData>>

\* Lines 277-292: send_email returns and the handler answers 200, or it
\* raises and the handler answers 502.
UploadMail(j) ==
    /\ hpc[j] = "mail"
    /\ \E sent \in {"ok", "fail"} :
         resp' = [resp EXCEPT ![j] = IF sent = "ok" THEN "200" ELSE "502"]
    /\ hpc' = [hpc EXCEPT ![j] = "responded"]
    /\ UNCHANGED <<submitted, stub, dir, errlog, failedAt, taxResult, organism, pc, queue,
                   enqueued, started, wpc, wjob, form, formData>>

\* The assemblies of the requests are rejected by the stage-1 classifier or
\* run the whole pipeline.
UploadMix == [j \in JobIds |-> {"badinput", "ok"}]

NextSubmit ==
    \/ UploadStart(MaxUploads, UploadMix) /\ UNCHANGED <<idVars, toolVars, queryVars>>
    \/ \E j \in UploadIds : UploadSave(j) /\ UNCHANGED <<idVars, toolVars, queryVars>>
    \/ \E j \in UploadIds : UploadMail(j) /\ UNCHANGED <<idVars, toolVars, queryVars>>
    \/ \E w \in Workers : WorkerGet(w) /\ UNCHANGED otherVars
    \/ \E j \in JobIds : ExecutorStart(j) /\ UNCHANGED otherVars
    \/ \E j \in JobIds : PipelineStep(j) /\ UNCHANGED <<uploadVars, idVars, queryVars>>
    \/ \E w \in Workers : WorkerResume(w) /\ UNCHANGED otherVars

SpecSubmit == Init /\ [][NextSubmit]_vars

\* ----------------------------------------------------------------- C16

\* put() has been called for the folder of request j.
Enqueued(j) == Count(enqueued, j) > 0

\* C16: every submission whose job was put on the analysis queue is
\* answered with a success response: once the folder is enqueued no later
\* step of upload_file turns the request into an error response.
C16_AcceptedReturnsSuccess ==
    \A j \in 1 .. submitted :
      (Enqueued(j) /\ hpc[j] = "responded") => resp[j] = "200"

\* ----------------------------------------------------------------- C17

\* The answers of upload_file that reject a submission.
Rejections == {"400", "500", "500 Fasta saving failed", "500 Genome download failed"}

\* The files run_pipeline and analysis_worker create.
PipelineFiles == MarkerFiles \cup {"error.log", "pipeline_error.log", "country"}

C18_EnqueuedAfterInputs ==
    \A j \in 1 .. submitted :
      /\ (Enqueued(j) \/ Count(queue, j) > 0) =>
           /\ Has(j, "formData.json") /\ Has(j, "contigFile.fa")
           /\ Pos(j, "formData.json") < Pos(j, "contigFile.fa")
           /\ formData[j] # NoData
           /\ DOMAIN formData[j] = {"email", "gcaCode", "location", "country"}
           /\ formData[j].gcaCode = form[j].gcaCode
      /\ Count(started, j) > 0 => Enqueued(j)
      /\ hpc[j] = "read" => ~Enqueued(j) /\ Count(queue, j) = 0

\* An uploaded assembly was saved after a suspension of the handler, then
\* enqueued and taken by a worker.
C18_Witness ==
    \E j \in UploadIds :
      /\ form[j].file /\ Enqueued(j)
      /\ dir[j][1] = "formData.json" /\ dir[j][2] = "contigFile.fa"
      /\ pc[j] \in PipelineLines

\* ---------------------------------------------------------- generate_job_id

\* The decimal digits of n, as characters.
RECURSIVE DecimalChars(_)
DecimalChars(n) ==
    IF n < 10 THEN <<ToString(n)>> ELSE Append(DecimalChars(n \div 10), ToString(n % 10))

\* f"{n:02d}": at least two digits, zero-padded; more when n needs them.
Format02d(n) == IF n < 10 THEN <<"0">> \o DecimalChars(n) ELSE DecimalChars(n)

\* What random.choice can give; a call of generate_random_keys draws every
\* character alike here, so that keys repeat.
RandomSources == {"a", "7"}

\* generate_random_keys(length), with c the character drawn.
generate_random_keys(length, c) == [i \in 1 .. length |-> c]

\* Lines 94-99: the job_id as its characters.
JobIdOf(day, n, c) ==
    day \o Format02d(n) \o <<"-">> \o generate_random_keys(4, c) \o <<"-">>
        \o generate_random_keys(4, c) \o <<"-">> \o generate_random_keys(8, c)

\* A generator that returns the identifier without looking for its folder.
GenerateJobIdUnchecked(c, cap) ==
    /\ Len(assigned) < cap
    /\ LET n == IF serial_counters[today] = 0 THEN 1 ELSE serial_counters[today]
           job_id == JobIdOf(today, n, c)
       IN /\ serial_counters' = [serial_counters EXCEPT ![today] = n + 1]
          /\ assigned' = Append(assigned, job_id)
          /\ folders' = folders \cup {job_id}
          /\ attempt' = [depth |-> 1, retrying |-> FALSE]
    /\ UNCHANGED today

\* One execution of lines 87-104, and line 215 when it returns: the day's
\* counter is started or read, then incremented; the identifier is returned
\* when no folder has its name, and upload_file makes the folder before
\* anything else can run; otherwise generate_job_id calls itself.  c is the
\* random draw, cap bounds the number of identifiers returned.
GenerateJobId(c, cap) ==
    /\ Len(assigned) < cap
    /\ LET n == IF serial_counters[today] = 0 THEN 1 ELSE serial_counters[today]
           job_id == JobIdOf(today, n, c)
           depth == IF attempt.retrying THEN attempt.depth + 1 ELSE 1
       IN /\ serial_counters' = [serial_counters EXCEPT ![today] = n + 1]
          /\ IF job_id \notin folders
             THEN /\ assigned' = Append(assigned, job_id)
                  /\ folders' = folders \cup {job_id}
                  /\ attempt' = [depth |-> depth, retrying |-> FALSE]
             ELSE /\ attempt' = [depth |-> depth, retrying |-> TRUE]
                  /\ UNCHANGED <<assigned, folders>>
    /\ UNCHANGED today

\* The process is restarted: the module is loaded again with an empty
\* serial_counters; the folders stay on the disk.
Restart ==
    /\ serial_counters # NoCounters
    /\ serial_counters' = NoCounters
    /\ attempt' = [attempt EXCEPT !.retrying = FALSE]
    /\ UNCHANGED <<today, folders, assigned>>

\* The date changes.
Midnight ==
    /\ today = FirstDay
    /\ today' = NextDay
    /\ UNCHANGED <<serial_counters, folders, assigned, attempt>>

queueVars == <<submitted, stub, dir, errlog, failedAt, taxResult, organism, pc, queue,
               enqueued, started, wpc, wjob>>

NextIds ==
    \/ \E c \in RandomSources : GenerateJobId(c, MaxIds) /\ UNCHANGED <<queueVars, uploadVars, toolVars, queryVars>>
    \/ Restart /\ UNCHANGED <<queueVars, uploadVars, toolVars, queryVars>>
    \/ Midnight /\ UNCHANGED <<queueVars, uploadVars, toolVars, queryVars>>

SpecIds == Init /\ [][NextIds]_vars

\* One process generates identifiers one after the other, over midnight.
NextSerial ==
    \/ GenerateJobId("a", MaxSerial) /\ UNCHANGED <<queueVars, uploadVars, toolVars, queryVars>>
    \/ Midnight /\ UNCHANGED <<queueVars, uploadVars, toolVars, queryVars>>

SpecSerial == Init /\ [][NextSerial]_vars

\* ----------------------------------------------------------------- C19

\* C19: generate_job_id never returns an identifier whose folder exists:
\* the identifiers returned are pairwise different, each has its folder,
\* and there are as many folders as identifiers, so that none was returned
\* for a folder that was already there.
C19_FreshAndDistinct ==
    /\ \A a, b \in 1 .. Len(assigned) : a # b => assigned[a] # assigned[b]
    /\ \A a \in 1 .. Len(assigned) : assigned[a] \in folders
    /\ Cardinality(folders) = Len(assigned)

\* After a restart an identifier collided with a folder of the earlier run,
\* and the recursive call returned a fresh one.
C19_Witness ==
    /\ attempt.depth >= 2 /\ ~attempt.retrying
    /\ Len(assigned) >= 2
    /\ assigned[Len(assigned)] \in folders

\* ----------------------------------------------------------------- C20

AlnumChars == DigitChars \cup {"a", "b", "z", "A", "B", "Z"}

\* YYYYMMDDss-XXXX-XXXX-XXXXXXXX: ten digits, then groups of 4, 4 and 8
\* alphanumeric characters, each after a dash.
MatchesFormat(id) ==
    /\ Len(id) = 29
    /\ \A i \in 1 .. 10 : id[i] \in DigitChars
    /\ id[11] = "-" /\ id[16] = "-" /\ id[21] = "-"
    /\ \A i \in (12 .. 15) \cup (17 .. 20) \cup (22 .. 29) : id[i] \in AlnumChars

\* C20: every job_id generate_job_id returns has the fixed format, with a
\* sequence number of exactly two digits, however many were generated that
\* day.
C20_FixedFormat == \A i \in 1 .. Len(assigned) : MatchesFormat(assigned[i])

\* ----------------------------------------------------------------- C21

\* Stage 1 exited with status 0 and left no readable taxAssign.result, and
\* run_pipeline has gone past the lines that read it.
ResultMissing(j) == organism[j] # "unset" /\ taxResult[j] = MissingResult

\* C21: every stage error ends the job in the failed state: when a stage's
\* tool exits non-zero, or a stage's expected output file is missing after
\* the tool exited 0, error.log is written, no further stage runs,
\* complete_ok is never created and the job is not put on the queue again.
C21_StageErrorFails ==
    \A j \in 1 .. submitted :
      (failedAt[j] # "none" \/ ResultMissing(j)) =>
        /\ Has(j, "error.log")
        /\ ~Has(j, "complete_ok")
        /\ pc[j] \notin PipelineLines
        /\ Count(queue, j) = 0 /\ Count(started, j) = 1

\* ----------------------------------------------------------------- C22

\* The error.log entries of the try blocks that run an external tool.
ToolStages == {"Taxonomic Assignment", "Query-Profiling", "Ab-Comparison-alleticDist",
               "cgMLST-Profiler", "Dendrogram or Heatmap", "Simple Ab-Comparison"}

\* C22: run_pipeline never raises to its caller for a tool failure: when
\* the try block of a tool stage fails, on either branch, the failure is
\* recorded in error.log under that stage's name and run_pipeline returns
\* normally.
C22_ToolFailureReturns ==
    \A j \in 1 .. submitted :
      failedAt[j] \in ToolStages =>
        /\ pc[j] # "raised"
        /\ errlog[j] = <<failedAt[j]>>
        /\ Has(j, "error.log")

\* ----------------------------------------------------------------- C23

\* C23: whenever the except clause of analysis_worker has written
\* pipeline_error.log for a job, the job's directory holds neither
\* complete_ok nor error.log, and the status query answers running for it
\* in that state and in every later one.
C23_HandlerLeavesRunning ==
    \A j \in 1 .. submitted :
      Has(j, "pipeline_error.log") =>
        /\ ~Has(j, "complete_ok")
        /\ ~Has(j, "error.log")
        /\ CheckStatus(j) = "running"

\* ------------------------------------------------------ the queries as steps

\* The jobs a client asks about: those of Spec and one that never exists.
QueryIds == 1 .. (MaxJobs + 1)

\* The download requests of the clients.
DownloadIds == {JobName(1), ".."}
DownloadNames == {<<"formData.json">>, <<"main.py">>}

\* A status query that leaves a trace of the request in the job directory.
CheckStatusStepTouching(j) ==
    /\ reply' = [kind |-> "status", request |-> <<JobName(j)>>, answer |-> CheckStatus(j)]
    /\ dir' = [dir EXCEPT ![j] = IF DirExists(j) THEN Touch(@, "last_query") ELSE @]
    /\ UNCHANGED <<submitted, stub, errlog, failedAt, taxResult, organism, pc, queue,
                   enqueued, started, wpc, wjob, uploadVars, idVars, toolVars>>

\* GET /status/{job_id}, lines 344-352, as a step: the handler has no
\* await, it reads the disk and answers.
CheckStatusStep(j) ==
    /\ reply' = [kind |-> "status", request |-> <<JobName(j)>>, answer |-> CheckStatus(j)]
    /\ UNCHANGED <<queueVars, uploadVars, idVars, toolVars>>

\* GET /result/{job_id}, lines 366-383.
GetResultStep(j) ==
    /\ reply' = [kind |-> "result", request |-> <<JobName(j)>>, answer |-> GetResult(j)]
    /\ UNCHANGED <<queueVars, uploadVars, idVars, toolVars>>

\* GET /download/{job_id}/{filename}, lines 396-404.
DownloadFileStep(job_id, filename) ==
    /\ reply' = [kind |-> "download", request |-> <<job_id>> \o filename,
                 answer |-> DownloadFile(job_id, filename)]
    /\ UNCHANGED <<queueVars, uploadVars, idVars, toolVars>>

\* A step of upload_file, the workers or the pipeline comes between the
\* queries: the latest step is no query.
Between == reply' = NoReply /\ UNCHANGED <<uploadVars, idVars>>

\* The assemblies are rejected by the classifier or run the whole pipeline.
QueryMix == [j \in JobIds |-> {"badinput", "ok"}]

NextQuery ==
    \/ Submit(MaxJobs, QueryMix) /\ Between /\ UNCHANGED toolVars
    \/ \E w \in Workers : WorkerGet(w) /\ Between /\ UNCHANGED toolVars
    \/ \E j \in JobIds : ExecutorStart(j) /\ Between /\ UNCHANGED toolVars
    \/ \E j \in JobIds : PipelineStep(j) /\ Between
    \/ \E w \in Workers : WorkerResume(w) /\ Between /\ UNCHANGED toolVars
    \/ \E j \in QueryIds : CheckStatusStep(j)
    \/ \E j \in QueryIds : GetResultStep(j)
    \/ \E job_id \in DownloadIds, filename \in DownloadNames : DownloadFileStep(job_id, filename)

SpecQuery == Init /\ [][NextQuery]_vars

\* ----------------------------------------------------------------- C24

\* C24: the queries are pure reads: a status, result or download query
\* changes no job directory, not the queue and nothing else of the
\* program's state, and a status query that follows a status query for the
\* same job_id, with no step of the pipeline or the workers in between,
\* gives the same answer.
C24_QueriesArePureReads ==
    [][reply'.kind # "none" =>
         /\ UNCHANGED <<queueVars, uploadVars, idVars, toolVars>>
         /\ (reply.kind = "status" /\ reply'.kind = "status"
               /\ reply'.request = reply.request) => reply'.answer = reply.answer]_vars

\* A status query was answered running for a job whose pipeline has made
\* its first marker and is not over.
C24_Witness ==
    \E j \in QueryIds :
      /\ reply.kind = "status" /\ reply.request = <<JobName(j)>>
      /\ reply.answer = "running"
      /\ Has(j, "taxAssign_ok") /\ pc[j] \in PipelineLines

\* ----------------------------------------------------------------- C25

\* The genus_species token of a field: its first two underscore-separated
\* components, or the field itself when it has fewer.
GenusSpecies(field) == IF Len(field) >= 2 THEN SubSeq(field, 1, 2) ELSE field

RowsMix == [j \in JobIds |-> {"mixedrows"}]

NextRows ==
    \/ Submit(MaxJobs, RowsMix) /\ UNCHANGED otherVars
    \/ \E w \in Workers : WorkerGet(w) /\ UNCHANGED otherVars
    \/ \E j \in JobIds : ExecutorStart(j) /\ UNCHANGED otherVars
    \/ \E j \in JobIds : PipelineStep(j) /\ UNCHANGED <<uploadVars, idVars, queryVars>>
    \/ \E w \in Workers : WorkerResume(w) /\ UNCHANGED otherVars

SpecRows == Init /\ [][NextRows]_vars

\* C26: on branch B a row of hits_summary.tsv with fewer than 7
\* tab-separated fields is skipped and does not abort the parse: for every
\* hits_summary.tsv with a header line, whatever rows follow, the parse
\* writes no 'Parsing hits_summary failed' entry and the job reaches
\* complete_ok (it has it once the system has come to rest).
C26_ShortRowsSkipped ==
    \A j \in 1 .. submitted :
      (organism[j] \notin KnownOrganisms /\ hits_summary[j].exists
         /\ hits_summary[j].rows # <<>>) =>
        /\ failedAt[j] # "Parsing hits_summary"
        /\ \A i \in 1 .. Len(errlog[j]) : errlog[j][i] # "Parsing hits_summary"
        /\ pc[j] \in {"parse", "final", "returned", "done"}
        /\ pc[j] \in {"returned", "done"} => Has(j, "complete_ok")
        /\ Quiescent => Has(j, "complete_ok")

\* A file of a header, a row one field short, a full row and an empty line
\* was parsed: one row was read, and the job is complete.
C26_Witness ==
    \E j \in JobIds :
      /\ hits_summary[j].rows = <<7, 6, 7, 0>>
      /\ ReadRows(Tail(hits_summary[j].rows)) = <<7>>
      /\ Processed(j) /\ Has(j, "complete_ok")
      /\ errlog[j] = <<>>

\* ----------------------------------------------------------------- C27

\* More submissions than workers; for the first ANALYSIS_WORKER_COUNT
\* assemblies the classifier fails or never returns, for the later ones it
\* fails.
HangMix ==
    [j \in JobIds |-> IF j <= ANALYSIS_WORKER_COUNT THEN {"hang", "badinput"} ELSE {"badinput"}]

NextHang ==
    \/ Submit(PoolJobs, HangMix) /\ UNCHANGED otherVars
    \/ \E w \in Workers : WorkerGet(w) /\ UNCHANGED otherVars
    \/ \E j \in JobIds : ExecutorStart(j) /\ UNCHANGED otherVars
    \/ \E j \in JobIds : PipelineStep(j) /\ UNCHANGED <<uploadVars, idVars, queryVars>>
    \/ \E w \in Workers : WorkerResume(w) /\ UNCHANGED otherVars

SpecHang == Init /\ [][NextHang]_vars

\* The pipelines whose external tool is running and never returns.
Hung == {j \in JobIds : stub[j] = "hang" /\ pc[j] = "s1"}

\* C27: there is no timeout and no cancellation: a pipeline whose tool never
\* returns stays where it is and keeps its worker in every later state; with
\* k such pipelines at most ANALYSIS_WORKER_COUNT - k other jobs execute at a
\* time; and once ANALYSIS_WORKER_COUNT pipelines hang no worker waits in
\* get() and no job is dequeued any more.
C27_HungOccupiesWorker ==
    /\ [](/\ Cardinality(Executing \ Hung) <= ANALYSIS_WORKER_COUNT - Cardinality(Hung)
          /\ \A j \in Hung : \E w \in Workers : wpc[w] = "await" /\ wjob[w] = j
          /\ Cardinality(Hung) = ANALYSIS_WORKER_COUNT =>
               \A w \in Workers : wpc[w] = "await" /\ wjob[w] \in Hung)
    /\ [][/\ \A j \in Hung : pc'[j] = "s1"
          /\ \A w \in Workers : wjob[w] \in Hung => (wpc'[w] = "await" /\ wjob'[w] = wjob[w])
          /\ Cardinality(Hung) = ANALYSIS_WORKER_COUNT =>
               (started' = started /\ Len(queue') >= Len(queue))]_vars

\* Every worker awaits a pipeline that hangs, and a job waits in the queue.
C27_Witness ==
    /\ Cardinality(Hung) = ANALYSIS_WORKER_COUNT
    /\ queue # <<>>
    /\ \A w \in Workers : wpc[w] = "await"

\* ----------------------------------------------------------------- C28

\* An outage that ends: the first ANALYSIS_WORKER_COUNT assemblies are
\* rejected by the classifier, all but perhaps the first into a directory
\* that cannot be written; the assemblies after them meet tools and a disk
\* that work.  Every tool returns.
StarveMix ==
    [j \in JobIds |-> IF j = 1 THEN OutageStubs
                      ELSE IF j <= ANALYSIS_WORKER_COUNT THEN {"unwritable"} ELSE {"ok"}]

NextStarve ==
    \/ Submit(PoolJobs, StarveMix) /\ UNCHANGED otherVars
    \/ \E w \in Workers : WorkerGet(w) /\ UNCHANGED otherVars
    \/ \E j \in JobIds : ExecutorStart(j) /\ UNCHANGED otherVars
    \/ \E j \in JobIds : PipelineStep(j) /\ UNCHANGED <<uploadVars, idVars, queryVars>>
    \/ \E w \in Workers : WorkerResume(w) /\ UNCHANGED otherVars

\* The event loop resumes every coroutine that can run, and the executor
\* runs every work item that has a thread.
FairWorkers ==
    /\ \A w \in Workers : WF_vars(WorkerGet(w) /\ UNCHANGED otherVars)
    /\ \A w \in Workers : WF_vars(WorkerResume(w) /\ UNCHANGED otherVars)
    /\ \A j \in JobIds : WF_vars(ExecutorStart(j) /\ UNCHANGED otherVars)
    /\ \A j \in JobIds : WF_vars(PipelineStep(j) /\ UNCHANGED <<uploadVars, idVars, queryVars>>)

SpecStarve == Init /\ [][NextStarve]_vars /\ FairWorkers

\* C28: with fair scheduling of the workers and tools that all terminate,
\* every enqueued job is eventually dequeued and its worker eventually
\* reaches task_done for it, for more submissions than workers.
C28_EveryJobProcessed ==
    \A j \in JobIds : Enqueued(j) ~> (Count(started, j) = 1 /\ Processed(j))

\* ----------------------------------------------------------------- C29

\* The workers that hold folder j: they took it from the queue and await
\* its pipeline.
Holders(j) == {w \in Workers : wpc[w] = "await" /\ wjob[w] = j}

\* C29: in every reachable state no job directory occurs more than once
\* across the queue and the folders held by the workers: no two workers
\* hold the same folder, a folder that is held is not on the queue, and a
\* pipeline that executes in a directory belongs to exactly one worker.
C29_SingleOwner ==
    /\ \A j \in JobIds :
         /\ Count(queue, j) + Cardinality(Holders(j)) <= 1
         /\ pc[j] \in PipelineLines => Cardinality(Holders(j)) = 1
    /\ \A v, w \in Workers :
         (v # w /\ wpc[v] = "await" /\ wpc[w] = "await") => wjob[v] # wjob[w]

\* Two workers await the pipelines of two different folders, both
\* executing, while a third folder waits on the queue.
C29_Witness ==
    \E v, w \in Workers :
      /\ v # w /\ wpc[v] = "await" /\ wpc[w] = "await"
      /\ pc[wjob[v]] \in PipelineLines /\ pc[wjob[w]] \in PipelineLines
      /\ queue # <<>> /\ \A i \in 1 .. Len(queue) : queue[i] \notin {wjob[v], wjob[w]}

\* ----------------------------------------------------------------- C30

\* C30: upload_file makes the job directory before it validates the
\* accession code and before the input is saved or downloaded, so a
\* submission answered 400 or 500 leaves a job directory that is never put
\* on the queue and never holds complete_ok or error.log; the status query
\* for it answers running, in the state of the rejection and in every later
\* one.
C30_RejectedLeavesRunningDirectory ==
    \A j \in UploadIds :
      resp[j] \in Rejections =>
        /\ DirExists(j)
        /\ ~Enqueued(j)
        /\ ~Has(j, "complete_ok") /\ ~Has(j, "error.log")
        /\ CheckStatus(j) = "running"

\* The download of the genome failed after formData.json was written: the
\* request was answered 500 and the directory is reported as running.
C30_Witness ==
    \E j \in UploadIds :
      /\ resp[j] = "500 Genome download failed"
      /\ dir[j] = <<"formData.json">>
      /\ CheckStatus(j) = "running"
      /\ queue = <<>>

====
